---- MODULE Spec2Model ----
(***************************************************************************)
(* A model of the bftree crate: the page codec (page.rs), leaf pages and   *)
(* their on-disk image (leaf_page.rs), mini-pages (mini_page.rs), the      *)
(* mapping table (mapping_table.rs), inner nodes (inner_node.rs) and the   *)
(* tree facade's get / insert (bf_tree.rs).                                *)
(*                                                                         *)
(* Byte strings are sequences of numbers 0..255.  Rust's 0-based vectors   *)
(* are TLA+ sequences: element i of a Vec is element i+1 of the sequence.  *)
(***************************************************************************)
EXTENDS Integers, Sequences, FiniteSets, TLC

VARIABLES
    mapping_table,    \* BfTree.mapping_table.table: slot per logical page id
    root_inner_node,  \* BfTree.root_inner_node
    inner_nodes,      \* BfTree.inner_nodes: pinned inner nodes by page id
    file,             \* the bytes of the backing file "storage.bftree"
    last,             \* the last facade call: what was called and what came back
    page,             \* page workbench: the page under test, a leaf or a mini-page
    parts,            \* page workbench: what LeafPage::split returned, if it ran last
    loaded,           \* page workbench: what load_from_disk returned, if it ran last
    pageOp,           \* page workbench: the last operation applied
    inserted,         \* page workbench: the (key, value) pairs inserted into page
    tableOp,          \* the last MappingTable call made on mapping_table directly
    codec,            \* codec workbench: a KVMeta, its 8 bytes, and what they decode to
    innerNode,        \* inner-node workbench: the InnerNode under test
    nodeOp            \* inner-node workbench: the last operation applied

vars == <<mapping_table, root_inner_node, inner_nodes, file, last,
          page, parts, loaded, pageOp, inserted, tableOp, codec, innerNode, nodeOp>>

treeVars == <<mapping_table, root_inner_node, inner_nodes, last, tableOp>>
benchVars == <<page, parts, loaded, pageOp, inserted>>
unitVars == <<codec, innerNode, nodeOp>>

----------------------------------------------------------------------------
(* Program constants (config.rs, page.rs).                                 *)

LEAF_PAGE_SIZE == 4096
MINI_PAGE_MIN_SIZE == 64
MINI_PAGE_MAX_SIZE == 4096
NODE_META_SIZE == 12
KV_META_SIZE == 8
U16_MAX == 65535

\* RecordType discriminants.
Insert == 0
Cache == 1
Tombstone == 2
Phantom == 3

----------------------------------------------------------------------------
(* Option<T>.                                                              *)

None == [some |-> FALSE, val |-> <<>>]
Some(v) == [some |-> TRUE, val |-> v]

(* Arithmetic helpers.                                                     *)

Pow2(n) == 2 ^ n
Min(a, b) == IF a <= b THEN a ELSE b

\* x as u16
AsU16(x) == x % 65536

\* (x >> i) & 1 for a value below 2^16
Bit(x, i) == IF i > 15 THEN 0 ELSE (x \div Pow2(i)) % 2

\* x.to_le_bytes()[..n]
RECURSIVE LeBytes(_, _)
LeBytes(x, n) == IF n = 0 THEN <<>> ELSE <<x % 256>> \o LeBytes(x \div 256, n - 1)

\* from_le_bytes
RECURSIVE FromLeBytes(_)
FromLeBytes(b) == IF b = <<>> THEN 0 ELSE Head(b) + 256 * FromLeBytes(Tail(b))

\* Ord for byte slices: lexicographic, a proper prefix is Less.
RECURSIVE Cmp(_, _)
Cmp(a, b) ==
    IF a = <<>> /\ b = <<>> THEN "Equal"
    ELSE IF a = <<>> THEN "Less"
    ELSE IF b = <<>> THEN "Greater"
    ELSE IF Head(a) < Head(b) THEN "Less"
    ELSE IF Head(a) > Head(b) THEN "Greater"
    ELSE Cmp(Tail(a), Tail(b))

\* data[start..end] with 0-based, end-exclusive bounds.
Slice(data, start, end) == SubSeq(data, start + 1, end)

\* Vec::insert(pos, x) with a 0-based position.
VecInsert(s, pos, x) == SubSeq(s, 1, pos) \o <<x>> \o SubSeq(s, pos + 1, Len(s))

----------------------------------------------------------------------------
(* NodeMeta (page.rs).                                                     *)

NodeMetaNew(node_size, is_mini, split_flag, record_count, leaf) ==
    [node_size |-> node_size, page_type |-> is_mini, split_flag |-> split_flag,
     record_count |-> record_count, leaf |-> leaf]

BoolBit(b) == IF b THEN 1 ELSE 0

\* 12 bytes: node_size (u16 LE), flags, padding, record_count (u16 LE),
\* the low 6 bytes of leaf.
NodeMetaSerialize(nm) ==
    LeBytes(nm.node_size, 2)
        \o <<2 * BoolBit(nm.page_type) + BoolBit(nm.split_flag)>>
        \o <<0>>
        \o LeBytes(nm.record_count, 2)
        \o LeBytes(nm.leaf, 6)

NodeMetaDeserialize(buf) ==
    [node_size |-> FromLeBytes(SubSeq(buf, 1, 2)),
     page_type |-> ((buf[3] \div 2) % 2) # 0,
     split_flag |-> (buf[3] % 2) # 0,
     record_count |-> FromLeBytes(SubSeq(buf, 5, 6)),
     leaf |-> FromLeBytes(SubSeq(buf, 7, 12))]

----------------------------------------------------------------------------
(* KVMeta (page.rs): 8 bytes, one little-endian 64-bit word.  The word is  *)
(* kept as its 64 bits, bit 0 the least significant.                       *)

KVMetaNew(key_size, value_size, offset, type_flag, is_fence, ref_flag, lookahead) ==
    [key_size |-> key_size % 16384,
     value_size |-> value_size % 16384,
     offset |-> offset,
     type_flag |-> type_flag % 4,
     is_fence |-> is_fence,
     ref_flag |-> ref_flag % 4,
     lookahead |-> lookahead]

\* Bit i of the u64 `packed` of KVMeta::serialize.  Every field is masked
\* to its width before it is shifted, so the fields fall into disjoint bit
\* ranges and each bit of the OR comes from one field; the bits that
\* lookahead << 49 pushes past bit 63 are lost.
PackedBit(m, i) ==
    CASE i < 14 -> Bit(m.key_size % 16384, i)
      [] i >= 14 /\ i < 28 -> Bit(m.value_size % 16384, i - 14)
      [] i >= 28 /\ i < 44 -> Bit(m.offset % 65536, i - 28)
      [] i >= 44 /\ i < 46 -> Bit(m.type_flag % 4, i - 44)
      [] i = 46 -> BoolBit(m.is_fence)
      [] i >= 47 /\ i < 49 -> Bit(m.ref_flag % 4, i - 47)
      [] i >= 49 -> Bit(m.lookahead, i - 49)

\* byte j (0-based) of packed.to_le_bytes()
PackedByte(m, j) ==
    PackedBit(m, 8 * j) + 2 * PackedBit(m, 8 * j + 1) + 4 * PackedBit(m, 8 * j + 2)
        + 8 * PackedBit(m, 8 * j + 3) + 16 * PackedBit(m, 8 * j + 4)
        + 32 * PackedBit(m, 8 * j + 5) + 64 * PackedBit(m, 8 * j + 6)
        + 128 * PackedBit(m, 8 * j + 7)

KVMetaSerialize(m) ==
    <<PackedByte(m, 0), PackedByte(m, 1), PackedByte(m, 2), PackedByte(m, 3),
      PackedByte(m, 4), PackedByte(m, 5), PackedByte(m, 6), PackedByte(m, 7)>>

\* bit i of the u64 whose little-endian bytes are buf; 0 past bit 63
WordBit(buf, i) == IF i > 63 THEN 0 ELSE (buf[(i \div 8) + 1] \div Pow2(i % 8)) % 2

\* ((packed >> shift) & (2^width - 1)) of the word whose bytes are buf
RECURSIVE Unpack(_, _, _)
Unpack(buf, shift, width) ==
    IF width = 0 THEN 0
    ELSE WordBit(buf, shift) + 2 * Unpack(buf, shift + 1, width - 1)

\* KVMeta::deserialize reading value_size two bits too high (a slip the
\* round trip through the file must notice).
KVMetaDeserializeShifted(buf) ==
    [key_size |-> Unpack(buf, 0, 14),
     value_size |-> Unpack(buf, 16, 14),
     offset |-> Unpack(buf, 28, 16),
     type_flag |-> Unpack(buf, 44, 2),
     is_fence |-> Unpack(buf, 46, 1) # 0,
     ref_flag |-> Unpack(buf, 47, 2),
     lookahead |-> Unpack(buf, 49, 16)]

\* KVMeta::deserialize.
KVMetaDeserialize(buf) ==
    [key_size |-> Unpack(buf, 0, 14),
     value_size |-> Unpack(buf, 14, 14),
     offset |-> Unpack(buf, 28, 16),
     type_flag |-> Unpack(buf, 44, 2),
     is_fence |-> Unpack(buf, 46, 1) # 0,
     ref_flag |-> Unpack(buf, 47, 2),
     lookahead |-> Unpack(buf, 49, 16)]

----------------------------------------------------------------------------
(* Page (page.rs).  MiniPage and LeafPage are wrappers around one Page and *)
(* are modelled as that page.                                              *)

PageNew(node_meta) == [node_meta |-> node_meta, kv_metas |-> <<>>, data |-> <<>>]

\* The key and value bytes that record meta kv references in data.
KeyOf(data, kv) == Slice(data, kv.offset, kv.offset + kv.key_size)
ValueOf(data, kv) ==
    Slice(data, kv.offset + kv.key_size, kv.offset + kv.key_size + kv.value_size)

\* The key and value of the record at 0-based index i of page p.
KeyAt(p, i) == KeyOf(p.data, p.kv_metas[i + 1])
ValueAt(p, i) == ValueOf(p.data, p.kv_metas[i + 1])

\* The loop of binary_search with right = mid - 1 on Greater.
RECURSIVE BinarySearchLoopShrink(_, _, _, _)
BinarySearchLoopShrink(p, target_key, left, right) ==
    IF ~(left < right) THEN [ret |-> None, page |-> p, idx |-> -1]
    ELSE LET mid == (left + right) \div 2
             ord == Cmp(KeyAt(p, mid), target_key)
         IN  CASE ord = "Equal" ->
                    [ret |-> Some(ValueAt(p, mid)),
                     page |-> [p EXCEPT !.kv_metas[mid + 1].ref_flag = 1],
                     idx |-> mid]
               [] ord = "Less" -> BinarySearchLoopShrink(p, target_key, mid + 1, right)
               [] ord = "Greater" ->
                    IF mid = 0 THEN [ret |-> None, page |-> p, idx |-> -1]
                    ELSE BinarySearchLoopShrink(p, target_key, left, mid - 1)

\* The loop of binary_search setting ref_flag on every record it probes.
RECURSIVE BinarySearchLoopMarkProbed(_, _, _, _)
BinarySearchLoopMarkProbed(p, target_key, left, right) ==
    IF ~(left < right) THEN [ret |-> None, page |-> p, idx |-> -1]
    ELSE LET mid == (left + right) \div 2
             ord == Cmp(KeyAt(p, mid), target_key)
             q == [p EXCEPT !.kv_metas[mid + 1].ref_flag = 1]
         IN  CASE ord = "Equal" ->
                    [ret |-> Some(ValueAt(p, mid)), page |-> q, idx |-> mid]
               [] ord = "Less" -> BinarySearchLoopMarkProbed(q, target_key, mid + 1, right)
               [] ord = "Greater" ->
                    IF mid = 0 THEN [ret |-> None, page |-> q, idx |-> -1]
                    ELSE BinarySearchLoopMarkProbed(q, target_key, left, mid)

RECURSIVE BinarySearchLoop(_, _, _, _)
BinarySearchLoop(p, target_key, left, right) ==
    IF ~(left < right) THEN [ret |-> None, page |-> p, idx |-> -1]
    ELSE LET mid == (left + right) \div 2
             ord == Cmp(KeyAt(p, mid), target_key)
         IN  CASE ord = "Equal" ->
                    [ret |-> Some(ValueAt(p, mid)),
                     page |-> [p EXCEPT !.kv_metas[mid + 1].ref_flag = 1],
                     idx |-> mid]
               [] ord = "Less" -> BinarySearchLoop(p, target_key, mid + 1, right)
               [] ord = "Greater" ->
                    IF mid = 0 THEN [ret |-> None, page |-> p, idx |-> -1]
                    ELSE BinarySearchLoop(p, target_key, left, mid)

\* Page::binary_search: the returned value, the page afterwards, and the
\* index of the matched record meta (-1 on a miss).
BinarySearch(p, target_key) == BinarySearchLoop(p, target_key, 0, Len(p.kv_metas))

\* total_size of Page::insert and LeafPage::can_fit
ProjectedSize(p, key, value) ==
    Len(p.kv_metas) * KV_META_SIZE + Len(p.data) + Len(key) + Len(value) + NODE_META_SIZE

\* A Page::insert that pushed at the end instead of searching for the place.
SearchPositionsAppend(p, key) == {Len(p.kv_metas)}

\* The indices slice::binary_search_by may hand to Page::insert: the index
\* of a record whose key equals key (any one of them when there are
\* several), else the index where key keeps the order.
SearchPositions(p, key) ==
    LET idx == 0..(Len(p.kv_metas) - 1)
        eq == {i \in idx : Cmp(KeyAt(p, i), key) = "Equal"}
    IN  IF eq # {} THEN eq
        ELSE {Cardinality({i \in idx : Cmp(KeyAt(p, i), key) = "Less"})}

\* Page::insert ignoring the record type it is given.
RecordTypeU8Default(record_type) == 0

RecordTypeU8(record_type) == IF record_type.some THEN record_type.val ELSE 0

\* The page after a Page::insert that found room and spliced at pos.
InsertAt(p, key, value, record_type, pos) ==
    LET offset == AsU16(Len(p.data))
        new_kv == KVMetaNew(AsU16(Len(key)), AsU16(Len(value)), offset,
                            RecordTypeU8(record_type), FALSE, 0, 0)
    IN  [node_meta |-> [p.node_meta EXCEPT !.record_count = @ + 1],
         kv_metas |-> VecInsert(p.kv_metas, pos, new_kv),
         data |-> p.data \o key \o value]

\* Page::insert: every outcome [ok, page] the call can have.
PageInsert(p, key, value, record_type) ==
    IF ProjectedSize(p, key, value) > p.node_meta.node_size
    THEN {[ok |-> FALSE, page |-> p]}
    ELSE {[ok |-> TRUE, page |-> InsertAt(p, key, value, record_type, pos)] :
             pos \in SearchPositions(p, key)}

----------------------------------------------------------------------------
(* MiniPage (mini_page.rs).                                                *)

\* A MiniPage::new that leaves the leaf link at 0.
MiniPageNewUnlinked(leaf_offset) ==
    PageNew(NodeMetaNew(AsU16(MINI_PAGE_MIN_SIZE), TRUE, FALSE, 0, 0))

MiniPageNew(leaf_offset) ==
    PageNew(NodeMetaNew(AsU16(MINI_PAGE_MIN_SIZE), TRUE, FALSE, 0, leaf_offset))

\* A next_size that doubles without looking at MINI_PAGE_MAX_SIZE.
NextSizeUncapped(mp) == Min(mp.node_meta.node_size * 2, U16_MAX)

\* MiniPage::next_size.
NextSize(mp) ==
    LET next == Min(mp.node_meta.node_size * 2, U16_MAX)
    IN  IF next <= MINI_PAGE_MAX_SIZE THEN next ELSE 0

\* A resize that starts the new page empty, as Page::new does.
ResizeEmpty(mp, new_size) ==
    PageNew(NodeMetaNew(AsU16(new_size), TRUE, mp.node_meta.split_flag,
                        mp.node_meta.record_count, mp.node_meta.leaf))

Resize(mp, new_size) ==
    [node_meta |-> NodeMetaNew(AsU16(new_size), TRUE, mp.node_meta.split_flag,
                               mp.node_meta.record_count, mp.node_meta.leaf),
     kv_metas |-> mp.kv_metas,
     data |-> mp.data]

----------------------------------------------------------------------------
(* LeafPage and the backing file (leaf_page.rs).                           *)

\* read_exact of n bytes at position pos: None when the file is too short.
ReadExact(f, pos, n) ==
    IF pos + n <= Len(f) THEN Some(SubSeq(f, pos + 1, pos + n)) ELSE None

\* seek to pos and write_all: a write past the end zero-fills the gap.
WriteAt(f, pos, bytes) ==
    LET before == IF pos <= Len(f) THEN SubSeq(f, 1, pos)
                  ELSE f \o [i \in 1..(pos - Len(f)) |-> 0]
        after == IF pos + Len(bytes) < Len(f)
                 THEN SubSeq(f, pos + Len(bytes) + 1, Len(f)) ELSE <<>>
    IN  before \o bytes \o after

RECURSIVE SerializeMetas(_)
SerializeMetas(kvs) ==
    IF kvs = <<>> THEN <<>> ELSE KVMetaSerialize(Head(kvs)) \o SerializeMetas(Tail(kvs))

\* The bytes flush_to_disk writes: header, record metas, data heap.
PageImage(p) == NodeMetaSerialize(p.node_meta) \o SerializeMetas(p.kv_metas) \o p.data

FlushToDisk(f, p, offset) == WriteAt(f, offset, PageImage(p))

\* The loop of load_from_disk that reads n record metas from position pos:
\* Some(the metas), or None when a read_exact fails.
RECURSIVE ReadMetas(_, _, _)
ReadMetas(f, pos, n) ==
    IF n = 0 THEN Some(<<>>)
    ELSE LET kv_buf == ReadExact(f, pos, KV_META_SIZE)
         IN  IF ~kv_buf.some THEN None
             ELSE LET rest == ReadMetas(f, pos + KV_META_SIZE, n - 1)
                  IN  IF ~rest.some THEN None
                      ELSE Some(<<KVMetaDeserialize(kv_buf.val)>> \o rest.val)

RECURSIVE TotalKvDataSize(_)
TotalKvDataSize(kvs) ==
    IF kvs = <<>> THEN 0
    ELSE Head(kvs).key_size + Head(kvs).value_size + TotalKvDataSize(Tail(kvs))

\* LeafPage::load_from_disk: Some(page), or None when a read_exact fails
\* and the call panics.
LoadFromDisk(f, disk_offset) ==
    LET meta_buf == ReadExact(f, disk_offset, NODE_META_SIZE)
    IN  IF ~meta_buf.some THEN None
        ELSE
        LET node_meta == NodeMetaDeserialize(meta_buf.val)
            kv_metas == ReadMetas(f, disk_offset + NODE_META_SIZE, node_meta.record_count)
        IN  IF ~kv_metas.some THEN None
            ELSE
            LET data == ReadExact(f, disk_offset + NODE_META_SIZE
                                        + KV_META_SIZE * node_meta.record_count,
                                  TotalKvDataSize(kv_metas.val))
            IN  IF ~data.some THEN None
                ELSE Some([node_meta |-> node_meta, kv_metas |-> kv_metas.val,
                           data |-> data.val])

CanFit(p, key, value) == ProjectedSize(p, key, value) <= LEAF_PAGE_SIZE

\* The pages that inserting records i .. hi-1 of src into dst, in order and
\* ignoring each insert's result, can produce.
RECURSIVE InsertRecords(_, _, _, _)
InsertRecords(src, dst, i, hi) ==
    IF i >= hi THEN {dst}
    ELSE UNION {InsertRecords(src, o.page, i + 1, hi) :
                   o \in PageInsert(dst, KeyAt(src, i), ValueAt(src, i), None)}

\* LeafPage::split of a page with at least one record: every
\* (left, right, split_key) the call can return.
Split(p) ==
    LET n == Len(p.kv_metas)
        mid == n \div 2
        split_key == KeyAt(p, mid)
    IN  {[left |-> l, right |-> r, split_key |-> split_key] :
            l \in InsertRecords(p, PageNew(p.node_meta), 0, mid),
            r \in InsertRecords(p, PageNew(p.node_meta), mid, n)}

----------------------------------------------------------------------------
(* InnerNode (inner_node.rs).                                              *)

\* Vec::get(i) and Vec::first() with a 0-based index.
VecGet(s, i) == IF i >= 0 /\ i < Len(s) THEN Some(s[i + 1]) ELSE None
VecFirst(s) == VecGet(s, 0)

InnerNodeNew == [keys |-> <<>>, children |-> <<>>]

MockSingleChild(child_page_id) == [keys |-> <<>>, children |-> <<child_page_id>>]

\* The search loop of find_child_page_id returning children[mid] on a hit.
RECURSIVE FindChildLoopHitLeft(_, _, _, _)
FindChildLoopHitLeft(node, key, left, right) ==
    IF ~(left < right)
    THEN IF left = 0 THEN VecFirst(node.children) ELSE VecGet(node.children, left)
    ELSE LET mid == (left + right) \div 2
             ord == Cmp(key, node.keys[mid + 1])
         IN  CASE ord = "Less" -> FindChildLoopHitLeft(node, key, left, mid)
               [] ord = "Equal" -> VecGet(node.children, mid)
               [] ord = "Greater" -> FindChildLoopHitLeft(node, key, mid + 1, right)

\* The search loop of find_child_page_id comparing the separator with the
\* key instead of the key with the separator.
RECURSIVE FindChildLoopReversed(_, _, _, _)
FindChildLoopReversed(node, key, left, right) ==
    IF ~(left < right)
    THEN IF left = 0 THEN VecFirst(node.children) ELSE VecGet(node.children, left)
    ELSE LET mid == (left + right) \div 2
             ord == Cmp(node.keys[mid + 1], key)
         IN  CASE ord = "Less" -> FindChildLoopReversed(node, key, left, mid)
               [] ord = "Equal" -> VecGet(node.children, mid + 1)
               [] ord = "Greater" -> FindChildLoopReversed(node, key, mid + 1, right)

RECURSIVE FindChildLoop(_, _, _, _)
FindChildLoop(node, key, left, right) ==
    IF ~(left < right)
    THEN IF left = 0 THEN VecFirst(node.children) ELSE VecGet(node.children, left)
    ELSE LET mid == (left + right) \div 2
             ord == Cmp(key, node.keys[mid + 1])
         IN  CASE ord = "Less" -> FindChildLoop(node, key, left, mid)
               [] ord = "Equal" -> VecGet(node.children, mid + 1)
               [] ord = "Greater" -> FindChildLoop(node, key, mid + 1, right)

FindChildPageId(node, key) ==
    IF node.keys = <<>> THEN VecFirst(node.children)
    ELSE FindChildLoop(node, key, 0, Len(node.keys))

\* The indices keys.binary_search(&key).unwrap_or_else(|e| e) may give: the
\* index of a separator equal to key (any one of them when there are
\* several), else the index where key keeps the order.
SeparatorPositions(keys, key) ==
    LET idx == 1..Len(keys)
        eq == {i \in idx : Cmp(keys[i], key) = "Equal"}
    IN  IF eq # {} THEN {i - 1 : i \in eq}
        ELSE {Cardinality({i \in idx : Cmp(keys[i], key) = "Less"})}

InsertIndexPanic == "panic: insertion index should be <= len"

\* InnerNode::insert: every outcome [node, panic] the call can have.
\* Vec::insert panics when the index is beyond the length; keys has taken
\* the separator by then.
InnerInsert(node, key, child_page_id) ==
    {LET keys == VecInsert(node.keys, pos, key)
     IN  IF pos + 1 > Len(node.children)
         THEN [node |-> [keys |-> keys, children |-> node.children],
               panic |-> InsertIndexPanic]
         ELSE [node |-> [keys |-> keys,
                         children |-> VecInsert(node.children, pos + 1, child_page_id)],
               panic |-> ""] :
        pos \in SeparatorPositions(node.keys, key)}

----------------------------------------------------------------------------
(* MappingTable (mapping_table.rs).  A slot is None or                     *)
(* Some([mini |-> None or Some(mini-page), disk_offset |-> n]).  The       *)
(* Rc<RefCell<MiniPage>> a slot holds is the only long-lived handle of its *)
(* mini-page, so the mini-page is kept in the slot.                        *)

MappingTableNew == <<>>

Entry(mini_page_opt, disk_offset) ==
    Some([mini |-> mini_page_opt, disk_offset |-> disk_offset])

MappingTableInsert(table, page_id, mini_page_opt, disk_offset) ==
    LET grown == IF page_id >= Len(table)
                 THEN [i \in 1..(page_id + 1) |-> IF i <= Len(table) THEN table[i] ELSE None]
                 ELSE table
    IN  [grown EXCEPT ![page_id + 1] = Entry(mini_page_opt, disk_offset)]

MappingTableGet(table, page_id) == IF page_id < Len(table) THEN table[page_id + 1] ELSE None

MappingTableContains(table, page_id) == page_id < Len(table) /\ table[page_id + 1].some

\* An update_mini_page that writes a fresh entry with leaf offset 0.
UpdateMiniPageNewEntry(table, page_id, mini_page) ==
    LET e == MappingTableGet(table, page_id)
    IN  IF e.some
        THEN Some([table EXCEPT ![page_id + 1] = Entry(Some(mini_page), 0)])
        ELSE None

\* update_mini_page: Some(table afterwards), or None where the call panics.
UpdateMiniPage(table, page_id, mini_page) ==
    LET e == MappingTableGet(table, page_id)
    IN  IF e.some
        THEN Some([table EXCEPT ![page_id + 1] = Entry(Some(mini_page), e.val.disk_offset)])
        ELSE None

\* A clear_mini_page that empties the whole slot.
ClearMiniPageSlot(table, page_id) ==
    IF page_id < Len(table) THEN [table EXCEPT ![page_id + 1] = None] ELSE table

ClearMiniPage(table, page_id) ==
    LET e == MappingTableGet(table, page_id)
    IN  IF e.some THEN [table EXCEPT ![page_id + 1] = Entry(None, e.val.disk_offset)]
        ELSE table

----------------------------------------------------------------------------
(* BfTree::traverse and BfTree::get_inner_node (bf_tree.rs).               *)

\* inners is the pinned map: a function from page ids to inner nodes.
GetInnerNode(root, inners, page_id) ==
    IF page_id = 0 THEN Some(root)
    ELSE IF page_id \in DOMAIN inners THEN Some(inners[page_id]) ELSE None

NoRoute(kind) == [kind |-> kind, mini |-> None, disk_offset |-> 0, page_id |-> 0]

\* The loop of traverse from current_node.  seen holds the ids of the
\* nodes the loop has been at: the loop reads nothing but the key and the
\* tree, so coming back to one of them means it never ends ("diverges").
RECURSIVE TraverseLoop(_, _, _, _, _, _)
TraverseLoop(root, inners, table, current_node, key, seen) ==
    LET child_page_id_opt == FindChildPageId(current_node, key)
    IN  IF ~child_page_id_opt.some THEN NoRoute("panic: no child page ID")
        ELSE
        LET child_page_id == child_page_id_opt.val
            inner_node == GetInnerNode(root, inners, child_page_id)
        IN  IF inner_node.some
            THEN IF child_page_id \in seen THEN NoRoute("diverges")
                 ELSE TraverseLoop(root, inners, table, inner_node.val, key,
                                   seen \cup {child_page_id})
            ELSE LET mapping_entry == MappingTableGet(table, child_page_id)
                 IN  IF mapping_entry.some
                     THEN [kind |-> "leaf", mini |-> mapping_entry.val.mini,
                           disk_offset |-> mapping_entry.val.disk_offset,
                           page_id |-> child_page_id]
                     ELSE NoRoute("panic: Page ID not found in mapping table")

Traverse(root, inners, table, key) == TraverseLoop(root, inners, table, root, key, {0})

----------------------------------------------------------------------------
(* BfTree::get and BfTree::insert (bf_tree.rs).                            *)

\* A write through the slot's Rc<RefCell<MiniPage>>: the mini-page of slot
\* page_id becomes mp.
StoreMini(table, page_id, mp) ==
    [table EXCEPT ![page_id + 1] = Entry(Some(mp), table[page_id + 1].val.disk_offset)]

Effect(table, panic) == [table |-> table, panic |-> panic]

MergePanic == "panic: merge() not yet implemented"
ReadPanic == "panic: Failed to read"

\* MiniPage::merge as mini_page.rs has it: it loads the leaf the mini-page
\* fronts and ends there; nothing is written to the leaf or the mini-page.
\* panic is the panic of a failed read ("" when the call returns).
Merge(f, mp) ==
    LET leaf_page == LoadFromDisk(f, mp.node_meta.leaf)
    IN  [page |-> mp, file |-> f, panic |-> IF leaf_page.some THEN "" ELSE ReadPanic]

\* get, step 3: the leaf held key with value; cache it in the mini-page.
AdmitCache(table, t, key, value) ==
    IF t.mini.some
    THEN UNION {
           IF o.ok THEN {Effect(StoreMini(table, t.page_id, o.page), "")}
           ELSE LET new_size == NextSize(t.mini.val)
                IN  IF new_size = 0 THEN {Effect(table, MergePanic)}
                    ELSE {Effect(StoreMini(table, t.page_id, o2.page), "") :
                             o2 \in PageInsert(Resize(t.mini.val, new_size),
                                               key, value, Some(Cache))} :
           o \in PageInsert(t.mini.val, key, value, Some(Cache))}
    ELSE {IF o.ok THEN Effect(UpdateMiniPage(table, t.page_id, o.page).val, "")
          ELSE Effect(table, "") :
             o \in PageInsert(MiniPageNew(t.disk_offset), key, value, Some(Cache))}

\* get, step 4 storing its empty record as a Cache record.
AdmitPhantomAsCache(table, t, key) ==
    IF t.mini.some
    THEN {Effect(StoreMini(table, t.page_id, o.page), "") :
             o \in PageInsert(t.mini.val, key, <<>>, Some(Cache))}
    ELSE {IF o.ok THEN Effect(UpdateMiniPage(table, t.page_id, o.page).val, "")
          ELSE Effect(table, "") :
             o \in PageInsert(MiniPageNew(t.disk_offset), key, <<>>, Some(Cache))}

\* get, step 4: neither page held key; remember that as a Phantom record.
AdmitPhantom(table, t, key) ==
    IF t.mini.some
    THEN {Effect(StoreMini(table, t.page_id, o.page), "") :
             o \in PageInsert(t.mini.val, key, <<>>, Some(Phantom))}
    ELSE {IF o.ok THEN Effect(UpdateMiniPage(table, t.page_id, o.page).val, "")
          ELSE Effect(table, "") :
             o \in PageInsert(MiniPageNew(t.disk_offset), key, <<>>, Some(Phantom))}

\* What one call returned: ret is the Option returned, src the page that
\* answered, rtype the type_flag of the matched mini-page record, panic the
\* panic that ended the call ("" when it returned), steps what the call
\* did, in the order it did it.
Outcome(table, ret, src, rtype, panic, steps) ==
    [table |-> table, ret |-> ret, src |-> src, rtype |-> rtype, panic |-> panic,
     steps |-> steps]

\* A get that loads the leaf before it looks at the mini-page.
GetOutcomesLoadFirst(root, inners, table, f, key, admit) ==
    LET t == Traverse(root, inners, table, key)
    IN  IF t.kind # "leaf" THEN {Outcome(table, None, "none", -1, t.kind, <<"traverse">>)}
        ELSE
        LET leaf_page == LoadFromDisk(f, t.disk_offset)
            probe == IF t.mini.some THEN BinarySearch(t.mini.val, key)
                     ELSE [ret |-> None, page |-> <<>>, idx |-> -1]
            probed == IF t.mini.some THEN <<"traverse", "load", "probe">>
                      ELSE <<"traverse", "load">>
        IN  IF ~leaf_page.some
            THEN {Outcome(table, None, "none", -1, ReadPanic, <<"traverse", "load">>)}
            ELSE IF probe.ret.some
            THEN {Outcome(StoreMini(table, t.page_id, probe.page), probe.ret, "mini",
                          probe.page.kv_metas[probe.idx + 1].type_flag, "", probed)}
            ELSE
            LET found == BinarySearch(leaf_page.val, key).ret
                done == IF admit THEN Append(probed, "admit") ELSE probed
            IN  IF found.some
                THEN {Outcome(e.table, IF e.panic = "" THEN found ELSE None,
                              "leaf", -1, e.panic, done) :
                         e \in IF admit THEN AdmitCache(table, t, key, found.val)
                               ELSE {Effect(table, "")}}
                ELSE {Outcome(e.table, None, "none", -1, e.panic, done) :
                         e \in IF admit THEN AdmitPhantom(table, t, key)
                               ELSE {Effect(table, "")}}

\* BfTree::get(key); admit stands for rand::random::<f64>() < 0.01.
GetOutcomes(root, inners, table, f, key, admit) ==
    LET t == Traverse(root, inners, table, key)
    IN  IF t.kind # "leaf" THEN {Outcome(table, None, "none", -1, t.kind, <<"traverse">>)}
        ELSE
        LET probe == IF t.mini.some THEN BinarySearch(t.mini.val, key)
                     ELSE [ret |-> None, page |-> <<>>, idx |-> -1]
            probed == IF t.mini.some THEN <<"traverse", "probe">> ELSE <<"traverse">>
        IN  IF probe.ret.some
            THEN {Outcome(StoreMini(table, t.page_id, probe.page), probe.ret, "mini",
                          probe.page.kv_metas[probe.idx + 1].type_flag, "", probed)}
            ELSE
            LET leaf_page == LoadFromDisk(f, t.disk_offset)
                read == Append(probed, "load")
            IN  IF ~leaf_page.some
                THEN {Outcome(table, None, "none", -1, ReadPanic, read)}
                ELSE
                LET found == BinarySearch(leaf_page.val, key).ret
                    done == IF admit THEN Append(read, "admit") ELSE read
                IN  IF found.some
                    THEN {Outcome(e.table, IF e.panic = "" THEN found ELSE None,
                                  "leaf", -1, e.panic, done) :
                             e \in IF admit THEN AdmitCache(table, t, key, found.val)
                                   ELSE {Effect(table, "")}}
                    ELSE {Outcome(e.table, None, "none", -1, e.panic, done) :
                             e \in IF admit THEN AdmitPhantom(table, t, key)
                                   ELSE {Effect(table, "")}}

\* BfTree::insert(key, value)
PutOutcomes(root, inners, table, key, value) ==
    LET t == Traverse(root, inners, table, key)
    IN  IF t.kind # "leaf" THEN {Effect(table, t.kind)}
        ELSE IF t.mini.some
        THEN UNION {
               IF o.ok THEN {Effect(StoreMini(table, t.page_id, o.page), "")}
               ELSE LET new_size == NextSize(t.mini.val)
                    IN  IF new_size = 0 THEN {Effect(table, MergePanic)}
                        ELSE {Effect(StoreMini(table, t.page_id, o2.page), "") :
                                 o2 \in PageInsert(Resize(t.mini.val, new_size),
                                                   key, value, Some(Insert))} :
               o \in PageInsert(t.mini.val, key, value, Some(Insert))}
        ELSE {IF o.ok THEN Effect(UpdateMiniPage(table, t.page_id, o.page).val, "")
              ELSE Effect(table, "") :
                 o \in PageInsert(MiniPageNew(t.disk_offset), key, value, Some(Insert))}

----------------------------------------------------------------------------
(* The tree under test: the shape of tests/bf_tree_tests.rs::test_get.     *)
(* The root routes keys below [50] to inner node 1 and the others to page  *)
(* id 2, which the test leaves out of the mapping table; inner node 1      *)
(* routes keys below [10] to leaf 3 and the others to leaf 4.  Leaf 3 is   *)
(* empty and leaf 4 holds key [15]; no slot has a mini-page yet.           *)

MaxRecords == 2      \* bound: records held by all mini-pages together
BigLen == 4070       \* bound: length of the long value

\* The keys get is called with, and those insert is called with.
GetKeys == {<<5>>, <<15>>, <<20>>, <<60>>}
PutKeys == {<<15>>, <<20>>}

\* The values insert is called with.  With a one-byte key, EdgeValue makes
\* Page::insert's total_size equal the node_size of a fresh mini-page;
\* BigValue fits a mini-page of MINI_PAGE_MAX_SIZE and, next to one short
\* record, leaves no room in it for another; HugeValue fits no mini-page.
SmallValue == <<1>>
EdgeValue == [i \in 1..(MINI_PAGE_MIN_SIZE - NODE_META_SIZE - 1) |-> 5]
BigValue == [i \in 1..BigLen |-> 9]
HugeValue == [i \in 1..(MINI_PAGE_MAX_SIZE - NODE_META_SIZE) |-> 4]
Values == {SmallValue, EdgeValue, BigValue, HugeValue}

LeafStride == 64    \* bound: distance between the leaf images in the file
LeafOffset(i) == i * LeafStride

\* A leaf page as the tests build one: inserts into an empty leaf.
EmptyLeaf == PageNew(NodeMetaNew(AsU16(LEAF_PAGE_SIZE), FALSE, FALSE, 0, 0))

RECURSIVE BuildLeaf(_, _)
BuildLeaf(p, kvs) ==
    IF kvs = <<>> THEN p
    ELSE BuildLeaf((CHOOSE o \in PageInsert(p, Head(kvs)[1], Head(kvs)[2], None) : TRUE).page,
                   Tail(kvs))

Leaf3 == EmptyLeaf
Leaf4 == BuildLeaf(EmptyLeaf, << <<(<<15>>), SmallValue>> >>)

InitFile == FlushToDisk(FlushToDisk(<<>>, Leaf4, LeafOffset(0)), Leaf3, LeafOffset(1))

\* steps holds what a get did, in order (empty for the other calls).
NoCall == [op |-> "none", key |-> <<>>, value |-> <<>>, ret |-> None,
           src |-> "none", rtype |-> -1, panic |-> "", steps |-> <<>>]

\* half names the page of a split that a flush wrote ("" for the page under
\* test itself).
NoPageOp == [op |-> "none", key |-> <<>>, value |-> <<>>, record_type |-> None,
             offset |-> 0, after_flush |-> FALSE, half |-> "", ret |-> None,
             panic |-> ""]

\* ids holds the page ids MappingTable::insert has been called with.
NoTableOp == [op |-> "none", page_id |-> 0, mini |-> None, disk_offset |-> 0,
              ret |-> None, panic |-> "", ids |-> {}]

\* No KVMeta has been serialized yet.
NoKV == [op |-> "none", meta |-> <<>>, buf |-> <<>>, back |-> <<>>]

NoNodeOp == [op |-> "none", key |-> <<>>, child_page_id |-> 0, ret |-> None, panic |-> ""]

UnitIdle ==
    /\ codec = NoKV
    /\ innerNode = InnerNodeNew
    /\ nodeOp = NoNodeOp

BenchIdle ==
    /\ page = EmptyLeaf
    /\ parts = None
    /\ loaded = None
    /\ pageOp = NoPageOp
    /\ inserted = {}

InitTree ==
    /\ root_inner_node = [keys |-> << <<50>> >>, children |-> <<1, 2>>]
    /\ inner_nodes = (1 :> [keys |-> << <<10>> >>, children |-> <<3, 4>>])
    /\ mapping_table = MappingTableInsert(
                           MappingTableInsert(MappingTableNew, 3, None, LeafOffset(1)),
                           4, None, LeafOffset(0))
    /\ file = InitFile
    /\ last = NoCall
    /\ tableOp = NoTableOp
    /\ BenchIdle
    /\ UnitIdle

\* The mini-pages the mapping table holds, and how many records they hold.
MiniPages(table) ==
    {table[i].val.mini.val : i \in {j \in 1..Len(table) :
                                       table[j].some /\ table[j].val.mini.some}}

RECURSIVE TotalRecords(_, _)
TotalRecords(table, i) ==
    IF i > Len(table) THEN 0
    ELSE (IF table[i].some /\ table[i].val.mini.some
          THEN Len(table[i].val.mini.val.kv_metas) ELSE 0) + TotalRecords(table, i + 1)

\* A panic ends the process: nothing runs after it.
Running == last.panic = ""

Get ==
    /\ Running
    /\ \E key \in GetKeys, admit \in BOOLEAN :
         \E o \in GetOutcomes(root_inner_node, inner_nodes, mapping_table, file, key, admit) :
            /\ TotalRecords(o.table, 1) <= MaxRecords
            /\ mapping_table' = o.table
            /\ last' = [op |-> "get", key |-> key, value |-> <<>>, ret |-> o.ret,
                        src |-> o.src, rtype |-> o.rtype, panic |-> o.panic,
                        steps |-> o.steps]
    /\ UNCHANGED <<root_inner_node, inner_nodes, file, tableOp>>
    /\ UNCHANGED benchVars
    /\ UNCHANGED unitVars

Put ==
    /\ Running
    /\ \E key \in PutKeys, value \in Values :
         \E e \in PutOutcomes(root_inner_node, inner_nodes, mapping_table, key, value) :
            /\ TotalRecords(e.table, 1) <= MaxRecords
            /\ mapping_table' = e.table
            /\ last' = [op |-> "put", key |-> key, value |-> value, ret |-> None,
                        src |-> "none", rtype |-> -1, panic |-> e.panic,
                        steps |-> <<>>]
    /\ UNCHANGED <<root_inner_node, inner_nodes, file, tableOp>>
    /\ UNCHANGED benchVars
    /\ UNCHANGED unitVars

NextTree == Get \/ Put

Spec == InitTree /\ [][NextTree]_vars

----------------------------------------------------------------------------
(* The page workbench: the public operations of Page, LeafPage and         *)
(* MiniPage applied to one page the way the unit tests of page.rs and      *)
(* leaf_page.rs apply them: the page is built by inserts and searches,     *)
(* then split, or flushed and at last loaded back.  The page is an empty   *)
(* leaf or an empty mini-page at first; the backing file is empty          *)
(* (File::create) or still holds the image of a leaf flushed at offset 0   *)
(* earlier.                                                                *)

MaxPageRecords == 2   \* bound: records held by the page under test
LongLen == 51         \* bound: length of the value that fills a fresh mini-page

PageKeys == {<<1>>, <<2>>, <<1, 0>>}
PageValues == {<<7>>, <<8, 8>>}
MiniKeys == {<<1>>, <<2>>}
LongValue == [i \in 1..LongLen |-> 6]
Offsets == {LeafOffset(0), LeafOffset(1)}

StaleLeaf ==
    BuildLeaf(EmptyLeaf, << <<(<<3>>), <<3, 3>> >>, <<(<<4>>), <<4, 4>> >>,
                            <<(<<5>>), <<5, 5>> >>, <<(<<6>>), <<6, 6>> >> >>)

IsMini(p) == p.node_meta.page_type

InitPage ==
    /\ root_inner_node = MockSingleChild(1)
    /\ inner_nodes = <<>>
    /\ mapping_table = MappingTableNew
    /\ last = NoCall
    /\ tableOp = NoTableOp
    /\ file \in {<<>>, FlushToDisk(<<>>, StaleLeaf, LeafOffset(0))}
    /\ page \in {EmptyLeaf, MiniPageNew(LeafOffset(0))}
    /\ parts = None
    /\ loaded = None
    /\ pageOp = NoPageOp
    /\ inserted = {}
    /\ UnitIdle

BenchRunning == pageOp.panic = ""

\* The page is built before it is flushed, not after, and the load ends
\* the run.
Building == BenchRunning /\ pageOp.op \notin {"flush", "load"}
Flushing == BenchRunning /\ pageOp.op # "load"

\* insert(key, value, record_type) on page: LeafPage::insert with the
\* default type, MiniPage::insert with each record type
PageInsertCall ==
    /\ Building
    /\ \E key \in IF IsMini(page) THEN MiniKeys ELSE PageKeys,
          value \in IF IsMini(page) THEN {LongValue} ELSE PageValues,
          record_type \in IF IsMini(page) THEN {Some(Insert), Some(Tombstone)}
                          ELSE {None} :
         \E o \in PageInsert(page, key, value, record_type) :
            /\ Len(o.page.kv_metas) <= MaxPageRecords
            /\ page' = o.page
            /\ inserted' = IF o.ok THEN inserted \cup {<<key, value>>} ELSE inserted
            /\ pageOp' = [NoPageOp EXCEPT !.op = "insert", !.key = key, !.value = value,
                                          !.record_type = record_type,
                                          !.ret = IF o.ok THEN Some(1) ELSE Some(0)]
    /\ parts' = None
    /\ loaded' = None
    /\ UNCHANGED file
    /\ UNCHANGED treeVars
    /\ UNCHANGED unitVars

\* page.resize(page.next_size()) when next_size() is not 0, as get and
\* insert of bf_tree.rs call it
MiniResize ==
    /\ Building
    /\ IsMini(page)
    /\ NextSize(page) # 0
    /\ page' = Resize(page, NextSize(page))
    /\ pageOp' = [NoPageOp EXCEPT !.op = "resize"]
    /\ parts' = None
    /\ loaded' = None
    /\ UNCHANGED <<file, inserted>>
    /\ UNCHANGED treeVars
    /\ UNCHANGED unitVars

\* page.merge()
MiniMerge ==
    /\ Building
    /\ IsMini(page)
    /\ LET m == Merge(file, page)
       IN  /\ page' = m.page
           /\ file' = m.file
           /\ pageOp' = [NoPageOp EXCEPT !.op = "merge", !.panic = m.panic]
    /\ parts' = None
    /\ loaded' = None
    /\ UNCHANGED inserted
    /\ UNCHANGED treeVars
    /\ UNCHANGED unitVars

\* page.binary_search(key)
PageSearch ==
    /\ Building
    /\ \E key \in PageKeys :
         LET r == BinarySearch(page, key)
         IN  /\ page' = r.page
             /\ pageOp' = [NoPageOp EXCEPT !.op = "search", !.key = key, !.ret = r.ret]
    /\ parts' = None
    /\ loaded' = None
    /\ UNCHANGED <<file, inserted>>
    /\ UNCHANGED treeVars
    /\ UNCHANGED unitVars

\* page.split(); on an empty page kv_metas[mid] is out of bounds and the
\* call panics.
LeafSplit ==
    /\ Building
    /\ ~IsMini(page)
    /\ IF page.kv_metas = <<>>
       THEN /\ pageOp' = [NoPageOp EXCEPT !.op = "split",
                                          !.panic = "panic: index out of bounds"]
            /\ parts' = None
       ELSE /\ \E s \in Split(page) : parts' = Some(s)
            /\ pageOp' = [NoPageOp EXCEPT !.op = "split"]
    /\ loaded' = None
    /\ UNCHANGED <<page, file, inserted>>
    /\ UNCHANGED treeVars
    /\ UNCHANGED unitVars

\* page.flush_to_disk(offset)
LeafFlush ==
    /\ Flushing
    /\ ~IsMini(page)
    /\ \E offset \in Offsets :
         /\ file' = FlushToDisk(file, page, offset)
         /\ pageOp' = [NoPageOp EXCEPT !.op = "flush", !.offset = offset]
    /\ parts' = None
    /\ loaded' = None
    /\ UNCHANGED <<page, inserted>>
    /\ UNCHANGED treeVars
    /\ UNCHANGED unitVars

\* left.flush_to_disk(offset) or right.flush_to_disk(offset) on the pages
\* the split just before returned
HalfFlush ==
    /\ BenchRunning
    /\ parts.some
    /\ \E half \in {"left", "right"}, offset \in Offsets :
         /\ file' = FlushToDisk(file, parts.val[half], offset)
         /\ pageOp' = [NoPageOp EXCEPT !.op = "flush", !.offset = offset, !.half = half]
    /\ parts' = None
    /\ loaded' = None
    /\ UNCHANGED <<page, inserted>>
    /\ UNCHANGED treeVars
    /\ UNCHANGED unitVars

\* loaded = LeafPage::load_from_disk(offset)
LeafLoad ==
    /\ Flushing
    /\ \E offset \in Offsets :
         LET l == LoadFromDisk(file, offset)
         IN  /\ loaded' = l
             /\ pageOp' = [NoPageOp EXCEPT
                              !.op = "load", !.offset = offset,
                              !.after_flush = (/\ pageOp.op = "flush"
                                               /\ pageOp.offset = offset
                                               /\ pageOp.half = ""),
                              !.half = IF pageOp.op = "flush" /\ pageOp.offset = offset
                                       THEN pageOp.half ELSE "",
                              !.panic = IF l.some THEN "" ELSE ReadPanic]
    /\ parts' = None
    /\ UNCHANGED <<page, file, inserted>>
    /\ UNCHANGED treeVars
    /\ UNCHANGED unitVars

NextPage ==
    \/ PageInsertCall
    \/ MiniResize
    \/ MiniMerge
    \/ PageSearch
    \/ LeafSplit
    \/ LeafFlush
    \/ LeafLoad

SpecPage == InitPage /\ [][NextPage]_vars

\* The page workbench where the pages a split returned are flushed too, as
\* a caller that installs them at their offsets does.
NextPageSplit == NextPage \/ HalfFlush

SpecPageSplit == InitPage /\ [][NextPageSplit]_vars

----------------------------------------------------------------------------
(* The mapping table on its own, as the unit test of mapping_table.rs uses *)
(* it: insert, update_mini_page, clear_mini_page and get on a table that   *)
(* starts empty.                                                           *)

MaxPageId == 2    \* bound: largest page id the calls are made with

PageIds == 0..MaxPageId
TableMinis == {MiniPageNew(LeafOffset(0)), MiniPageNew(LeafOffset(1))}

InitTable ==
    /\ root_inner_node = MockSingleChild(1)
    /\ inner_nodes = <<>>
    /\ mapping_table = MappingTableNew
    /\ last = NoCall
    /\ tableOp = NoTableOp
    /\ file = <<>>
    /\ BenchIdle
    /\ UnitIdle

TableRunning == tableOp.panic = ""

UpdatePanic == "panic: Cannot update mini-page: page_id not found in mapping table"

\* mapping_table.insert(page_id, mini_page_rc, disk_offset)
TableInsert ==
    /\ TableRunning
    /\ \E page_id \in PageIds, mini \in {None} \cup {Some(m) : m \in TableMinis},
          disk_offset \in Offsets :
         /\ mapping_table' = MappingTableInsert(mapping_table, page_id, mini, disk_offset)
         /\ tableOp' = [NoTableOp EXCEPT !.op = "insert", !.page_id = page_id,
                                         !.mini = mini, !.disk_offset = disk_offset,
                                         !.ids = tableOp.ids \cup {page_id}]
    /\ UNCHANGED <<root_inner_node, inner_nodes, last, file>>
    /\ UNCHANGED benchVars
    /\ UNCHANGED unitVars

\* mapping_table.update_mini_page(page_id, mini_page_rc)
TableUpdate ==
    /\ TableRunning
    /\ \E page_id \in PageIds, m \in TableMinis :
         LET r == UpdateMiniPage(mapping_table, page_id, m)
         IN  /\ mapping_table' = IF r.some THEN r.val ELSE mapping_table
             /\ tableOp' = [NoTableOp EXCEPT !.op = "update", !.page_id = page_id,
                                             !.mini = Some(m),
                                             !.panic = IF r.some THEN "" ELSE UpdatePanic,
                                             !.ids = tableOp.ids]
    /\ UNCHANGED <<root_inner_node, inner_nodes, last, file>>
    /\ UNCHANGED benchVars
    /\ UNCHANGED unitVars

\* mapping_table.clear_mini_page(page_id)
TableClear ==
    /\ TableRunning
    /\ \E page_id \in PageIds :
         /\ mapping_table' = ClearMiniPage(mapping_table, page_id)
         /\ tableOp' = [NoTableOp EXCEPT !.op = "clear", !.page_id = page_id,
                                         !.ids = tableOp.ids]
    /\ UNCHANGED <<root_inner_node, inner_nodes, last, file>>
    /\ UNCHANGED benchVars
    /\ UNCHANGED unitVars

\* mapping_table.get(page_id) and mapping_table.contains(page_id)
TableGet ==
    /\ TableRunning
    /\ \E page_id \in 0..(MaxPageId + 1) :
         tableOp' = [NoTableOp EXCEPT !.op = "get", !.page_id = page_id,
                                     !.ret = MappingTableGet(mapping_table, page_id),
                                     !.ids = tableOp.ids]
    /\ UNCHANGED <<mapping_table, root_inner_node, inner_nodes, last, file>>
    /\ UNCHANGED benchVars
    /\ UNCHANGED unitVars

NextTable == TableInsert \/ TableUpdate \/ TableClear \/ TableGet

SpecTable == InitTable /\ [][NextTable]_vars

----------------------------------------------------------------------------
(* The record-meta codec on its own: a KVMeta made by KVMeta::new is       *)
(* serialized, then the 8 bytes are deserialized.                          *)

\* The field values KVMeta::new is called with: the ends of each field's
\* range and values in between.
KeySizes == {0, 1, 16383}
ValueSizes == {0, 255, 16383}
MetaOffsets == {0, 4095, 65535}
Lookaheads == {0, 1, 32767, 32768, 65535}

\* The metas KVMeta::new returns for these field values.
NewMetas ==
    {KVMetaNew(key_size, value_size, offset, type_flag, is_fence, ref_flag, lookahead) :
        key_size \in KeySizes, value_size \in ValueSizes, offset \in MetaOffsets,
        type_flag \in 0..3, is_fence \in BOOLEAN, ref_flag \in 0..3,
        lookahead \in Lookaheads}

InitCodec ==
    /\ root_inner_node = MockSingleChild(1)
    /\ inner_nodes = <<>>
    /\ mapping_table = MappingTableNew
    /\ last = NoCall
    /\ tableOp = NoTableOp
    /\ file = <<>>
    /\ BenchIdle
    /\ codec \in {[NoKV EXCEPT !.op = "new", !.meta = m] : m \in NewMetas}
    /\ innerNode = InnerNodeNew
    /\ nodeOp = NoNodeOp

\* buf = meta.serialize()
KVSerialize ==
    /\ codec.op = "new"
    /\ codec' = [codec EXCEPT !.op = "serialize", !.buf = KVMetaSerialize(codec.meta)]
    /\ UNCHANGED <<innerNode, nodeOp>>
    /\ UNCHANGED <<file, treeVars, benchVars>>

\* back = KVMeta::deserialize(&buf)
KVDeserialize ==
    /\ codec.op = "serialize"
    /\ codec' = [codec EXCEPT !.op = "deserialize", !.back = KVMetaDeserialize(codec.buf)]
    /\ UNCHANGED <<innerNode, nodeOp>>
    /\ UNCHANGED <<file, treeVars, benchVars>>

NextCodec == KVSerialize \/ KVDeserialize

SpecCodec == InitCodec /\ [][NextCodec]_vars

----------------------------------------------------------------------------
(* An inner node on its own: made by InnerNode::new or mock_single_child,  *)
(* then given separators by insert and asked for children by               *)
(* find_child_page_id.                                                     *)

MaxSeparators == 3    \* bound: separator keys held by the node under test

SeparatorKeys == {<<10>>, <<20>>, <<20, 0>>, <<30>>}
FindKeys == SeparatorKeys \cup {<<>>, <<9, 255>>, <<15>>, <<20, 1>>, <<40>>}

\* Page ids are handed out once each: 1 is the child of mock_single_child,
\* the others go to insert.
ChildIds == 2..(MaxSeparators + 2)

InitInner ==
    /\ root_inner_node = MockSingleChild(1)
    /\ inner_nodes = <<>>
    /\ mapping_table = MappingTableNew
    /\ last = NoCall
    /\ tableOp = NoTableOp
    /\ file = <<>>
    /\ BenchIdle
    /\ codec = NoKV
    /\ innerNode \in {InnerNodeNew, MockSingleChild(1)}
    /\ nodeOp = NoNodeOp

NodeRunning == nodeOp.panic = ""

\* innerNode.insert(key, child_page_id)
NodeInsert ==
    /\ NodeRunning
    /\ Len(innerNode.keys) < MaxSeparators
    /\ \E key \in SeparatorKeys, child_page_id \in ChildIds :
         /\ \A i \in 1..Len(innerNode.children) : innerNode.children[i] # child_page_id
         /\ \E o \in InnerInsert(innerNode, key, child_page_id) :
               /\ innerNode' = o.node
               /\ nodeOp' = [NoNodeOp EXCEPT !.op = "insert", !.key = key,
                                             !.child_page_id = child_page_id,
                                             !.panic = o.panic]
    /\ UNCHANGED codec
    /\ UNCHANGED <<file, treeVars, benchVars>>

\* innerNode.find_child_page_id(key)
NodeFind ==
    /\ NodeRunning
    /\ \E key \in FindKeys :
         nodeOp' = [NoNodeOp EXCEPT !.op = "find", !.key = key,
                                   !.ret = FindChildPageId(innerNode, key)]
    /\ UNCHANGED <<codec, innerNode>>
    /\ UNCHANGED <<file, treeVars, benchVars>>

NextInner == NodeInsert \/ NodeFind

SpecInner == InitInner /\ [][NextInner]_vars

----------------------------------------------------------------------------
(* BfTree::traverse on its own, on trees of one or two levels of inner     *)
(* nodes.  Every child id of the root is the id of the pinned inner node 1 *)
(* or of a leaf in the mapping table, every child id of inner node 1 is    *)
(* the id of a leaf in the mapping table; the leaves have the logical page *)
(* ids 0, 3 and 4.                                                         *)

LeafIds == {0, 3, 4}
InnerId == 1
TraverseKeys == {<<5>>, <<10>>, <<15>>, <<50>>, <<60>>}

\* The mapping table with the three leaves, none with a mini-page.
LeafTable ==
    MappingTableInsert(
        MappingTableInsert(
            MappingTableInsert(MappingTableNew, 0, None, LeafOffset(0)),
            3, None, LeafOffset(1)),
        4, None, LeafOffset(2))

InitTraverse ==
    /\ root_inner_node \in
          {MockSingleChild(c) : c \in LeafIds \cup {InnerId}}
             \cup {[keys |-> << <<50>> >>, children |-> <<a, b>>] :
                      a, b \in LeafIds \cup {InnerId}}
    /\ inner_nodes \in
          {(InnerId :> [keys |-> << <<10>> >>, children |-> <<a, b>>]) : a, b \in LeafIds}
    /\ mapping_table = LeafTable
    /\ file = InitFile
    /\ last = NoCall
    /\ tableOp = NoTableOp
    /\ BenchIdle
    /\ UnitIdle

\* self.traverse(key); panic tells what kept the call from returning: a
\* panic, or "diverges" when the loop never ends.
TraverseCall ==
    /\ Running
    /\ \E key \in TraverseKeys :
         LET t == Traverse(root_inner_node, inner_nodes, mapping_table, key)
         IN  last' = [NoCall EXCEPT
                         !.op = "traverse", !.key = key,
                         !.ret = IF t.kind = "leaf" THEN Some(t.page_id) ELSE None,
                         !.panic = IF t.kind = "leaf" THEN "" ELSE t.kind]
    /\ UNCHANGED <<mapping_table, root_inner_node, inner_nodes, file, tableOp>>
    /\ UNCHANGED benchVars
    /\ UNCHANGED unitVars

NextTraverse == TraverseCall

SpecTraverse == InitTraverse /\ [][NextTraverse]_vars

----------------------------------------------------------------------------
(* Properties of BfTree::get and BfTree::insert, checked under Spec.       *)

\* What the leaf of the slot fronting disk_offset holds for key.
LeafLookup(f, disk_offset, key) ==
    LET leaf_page == LoadFromDisk(f, disk_offset)
    IN  IF leaf_page.some THEN BinarySearch(leaf_page.val, key).ret ELSE None

InSomeLeaf(key) ==
    \E i \in 1..Len(mapping_table) :
        /\ mapping_table[i].some
        /\ LeafLookup(file, mapping_table[i].val.disk_offset, key).some

\* C1: a PUT(k, v) that is followed immediately by GET(k) makes that GET
\* return Some(v), whatever GETs and PUTs came before.
C1_PutThenGet ==
    [][(last.op = "put" /\ last'.op = "get" /\ last'.key = last.key)
          => last'.ret = Some(last.value)]_vars

\* C2: a GET of a key that is never given to PUT and that no leaf holds
\* returns none, also after earlier GETs of it.
C2_UnknownKeyIsNone ==
    (last.op = "get" /\ last.panic = "" /\ last.key \notin PutKeys /\ ~InSomeLeaf(last.key))
        => ~last.ret.some

\* C3: a GET answered by the mini-page returns the record's value when the
\* record's type is Insert or Cache and none when it is Phantom or
\* Tombstone.
C3_PhantomAndTombstoneHide ==
    (last.op = "get" /\ last.src = "mini")
        => (last.ret.some <=> last.rtype \in {Insert, Cache})

StrictlySorted(p) ==
    \A i \in 1..(Len(p.kv_metas) - 1) : Cmp(KeyAt(p, i - 1), KeyAt(p, i)) = "Less"

\* C5: no mini-page holds two record metas that reference the same key:
\* record_metas is strictly sorted by key.
C5_NoDuplicateKeys == \A mp \in MiniPages(mapping_table) : StrictlySorted(mp)

IsMinTimesPowerOfTwo(n) == \E k \in 0..16 : n = MINI_PAGE_MIN_SIZE * Pow2(k)

\* C7: every mini-page's header, record metas and heap fit in its node_size,
\* node_size is at most MINI_PAGE_MAX_SIZE, and node_size is
\* MINI_PAGE_MIN_SIZE times a power of two.
C7_MiniPageSize ==
    \A mp \in MiniPages(mapping_table) :
        /\ NODE_META_SIZE + KV_META_SIZE * Len(mp.kv_metas) + Len(mp.data)
              <= mp.node_meta.node_size
        /\ mp.node_meta.node_size <= MINI_PAGE_MAX_SIZE
        /\ IsMinTimesPowerOfTwo(mp.node_meta.node_size)

\* C9: every Cache record of a mini-page has a key that the leaf of its
\* slot holds with exactly the same value.
C9_CacheMatchesLeaf ==
    \A i \in 1..Len(mapping_table) :
        (mapping_table[i].some /\ mapping_table[i].val.mini.some) =>
            LET mp == mapping_table[i].val.mini.val
            IN  \A j \in 0..(Len(mp.kv_metas) - 1) :
                    mp.kv_metas[j + 1].type_flag = Cache =>
                        LeafLookup(file, mapping_table[i].val.disk_offset, KeyAt(mp, j))
                            = Some(ValueAt(mp, j))

\* A GET has just admitted a Cache record next to another record.
C9_Witness ==
    /\ last.op = "get"
    /\ last.src = "leaf"
    /\ \E mp \in MiniPages(mapping_table) :
          /\ Len(mp.kv_metas) >= 2
          /\ \E j \in 1..Len(mp.kv_metas) : mp.kv_metas[j].type_flag = Cache

\* C10: a GET admission or a PUT that finds the mini-page at
\* MINI_PAGE_MAX_SIZE without room for the record still completes: the
\* call does not abort.
C10_FullMiniPageCompletes == last.panic # MergePanic

\* The record (key, value) is held by some mini-page of the tree.
Stored(key, value) ==
    \E mp \in MiniPages(mapping_table) :
        \E j \in 0..(Len(mp.kv_metas) - 1) : KeyAt(mp, j) = key /\ ValueAt(mp, j) = value

\* A header, one record meta, key and value fit in MINI_PAGE_MAX_SIZE bytes.
FitsMaxMiniPage(key, value) ==
    NODE_META_SIZE + KV_META_SIZE + Len(key) + Len(value) <= MINI_PAGE_MAX_SIZE

\* C11: a PUT of a record that fits no mini-page of MINI_PAGE_MAX_SIZE does
\* not return normally, and a PUT that returns normally leaves the record
\* in the tree.
C11_PutFailsOrStores ==
    last.op = "put" =>
        /\ ~FitsMaxMiniPage(last.key, last.value) => last.panic # ""
        /\ last.panic = "" => Stored(last.key, last.value)

\* C12: a GET that misses in the mini-page (or finds none) and whose leaf
\* holds the key returns the leaf's value, whether or not admission is
\* tried and whether it succeeds or fails for lack of space.
C12_LeafHitReturnsLeafValue ==
    [][LET t == Traverse(root_inner_node, inner_nodes, mapping_table, last'.key)
       IN  (/\ last'.op = "get"
            /\ t.kind = "leaf"
            /\ t.mini.some => ~BinarySearch(t.mini.val, last'.key).ret.some
            /\ LeafLookup(file, t.disk_offset, last'.key).some)
               => last'.ret = LeafLookup(file, t.disk_offset, last'.key)]_vars

\* Every key of mini-page old, and key, is found by search in mini-page new,
\* which holds the record (key, value).
GrownAndFound(old, new, key, value) ==
    /\ \E j \in 0..(Len(new.kv_metas) - 1) : KeyAt(new, j) = key /\ ValueAt(new, j) = value
    /\ BinarySearch(new, key).ret.some
    /\ \A j \in 0..(Len(old.kv_metas) - 1) : BinarySearch(new, KeyAt(old, j)).ret.some
    /\ IsMinTimesPowerOfTwo(new.node_meta.node_size)
    /\ new.node_meta.node_size >= old.node_meta.node_size

\* C13: a PUT of a record that fits a mini-page of MINI_PAGE_MAX_SIZE, on a
\* slot whose mini-page is absent or too small for it, leaves a mini-page
\* grown by doublings in which the record and every earlier record are
\* found by search.
C13_PutGrowsUntilFit ==
    [][LET t == Traverse(root_inner_node, inner_nodes, mapping_table, last'.key)
           old == IF t.mini.some THEN t.mini.val ELSE MiniPageNew(t.disk_offset)
           slot == MappingTableGet(mapping_table', t.page_id)
       IN  (/\ last'.op = "put"
            /\ t.kind = "leaf"
            /\ FitsMaxMiniPage(last'.key, last'.value)
            /\ ProjectedSize(old, last'.key, last'.value) > old.node_meta.node_size)
               => /\ last'.panic = ""
                  /\ slot.some /\ slot.val.mini.some
                  /\ GrownAndFound(old, slot.val.mini.val, last'.key, last'.value)]_vars

\* The child that handles key in node: child i handles the keys k with
\* keys[i-1] <= k < keys[i].
RouteChild(node, key) ==
    node.children[1 + Cardinality({i \in 1..Len(node.keys) :
                                      Cmp(node.keys[i], key) \in {"Less", "Equal"}})]

\* The leaf id key is routed to: down from the root while the child is a
\* pinned inner node (the tree under test has two levels of them).
RouteLeaf(key) ==
    LET c1 == RouteChild(root_inner_node, key)
    IN  IF c1 \notin DOMAIN inner_nodes THEN c1
        ELSE LET c2 == RouteChild(inner_nodes[c1], key)
             IN  IF c2 \notin DOMAIN inner_nodes THEN c2
                 ELSE RouteChild(inner_nodes[c2], key)

ProbeKeys == GetKeys \cup {<<10>>, <<50>>, <<9, 255>>}

\* C18: traverse ends at the first child id on the key's route that names
\* no pinned inner node and returns that id with its slot's mini-page and
\* leaf offset; a GET is answered by that slot's mini-page or leaf.
C18_TraverseRoutes ==
    /\ \A key \in ProbeKeys :
          LET t == Traverse(root_inner_node, inner_nodes, mapping_table, key)
              slot == MappingTableGet(mapping_table, RouteLeaf(key))
          IN  IF slot.some
              THEN /\ t.kind = "leaf"
                   /\ t.page_id = RouteLeaf(key)
                   /\ t.mini = slot.val.mini
                   /\ t.disk_offset = slot.val.disk_offset
              ELSE t.kind = "panic: Page ID not found in mapping table"
    /\ (last.op = "get" /\ last.panic = "") =>
          LET slot == MappingTableGet(mapping_table, RouteLeaf(last.key))
          IN  /\ slot.some
              /\ last.src = "mini" =>
                    /\ slot.val.mini.some
                    /\ last.ret.some
                    /\ \E j \in 0..(Len(slot.val.mini.val.kv_metas) - 1) :
                          /\ KeyAt(slot.val.mini.val, j) = last.key
                          /\ ValueAt(slot.val.mini.val, j) = last.ret.val
              /\ last.src # "mini" =>
                    last.ret = LeafLookup(file, slot.val.disk_offset, last.key)

\* A GET of the key of leaf 4 was answered by the mini-page of its slot
\* while the slot of leaf 3 has a mini-page too.
C18_Witness ==
    /\ last.op = "get"
    /\ last.key = <<15>>
    /\ last.src = "mini"
    /\ Cardinality(MiniPages(mapping_table)) = 2

\* The place of a step of get in the order traverse, mini-page probe, leaf
\* load, admission.
StepRank(step) ==
    CASE step = "traverse" -> 1
      [] step = "probe" -> 2
      [] step = "load" -> 3
      [] step = "admit" -> 4

\* C29: the steps of one GET come in the order traverse, mini-page probe,
\* leaf load, admission; a GET answered by the mini-page does not load the
\* leaf, and no GET loads the leaf more than once.
C29_GetStepOrder ==
    last.op = "get" =>
        /\ Len(last.steps) >= 1
        /\ last.steps[1] = "traverse"
        /\ \A i \in 1..(Len(last.steps) - 1) :
              StepRank(last.steps[i]) < StepRank(last.steps[i + 1])
        /\ last.src = "mini" => \A i \in 1..Len(last.steps) : last.steps[i] # "load"
        /\ Cardinality({i \in 1..Len(last.steps) : last.steps[i] = "load"}) <= 1

\* A GET was answered by a mini-page that an earlier GET, which went to
\* the leaf, had filled.
C29_Witness ==
    /\ last.op = "get"
    /\ last.src = "mini"
    /\ last.rtype = Cache
    /\ last.steps = <<"traverse", "probe">>

\* Sequence a is the beginning of sequence b.
IsPrefix(a, b) == Len(a) <= Len(b) /\ SubSeq(b, 1, Len(a)) = a

C33_RegisteredMiniPages ==
    \A i \in 1..Len(mapping_table) :
        (mapping_table[i].some /\ mapping_table[i].val.mini.some) =>
            LET mp == mapping_table[i].val.mini.val
            IN  /\ mp.node_meta.leaf = mapping_table[i].val.disk_offset
                /\ Len(mp.kv_metas) >= 1

\* Two slots with different leaf offsets have a mini-page each, the last
\* one registered by a GET.
C33_Witness ==
    /\ last.op = "get"
    /\ last.src # "mini"
    /\ \E i, j \in 1..Len(mapping_table) :
          /\ i # j
          /\ mapping_table[i].some /\ mapping_table[i].val.mini.some
          /\ mapping_table[j].some /\ mapping_table[j].val.mini.some
          /\ mapping_table[i].val.disk_offset # mapping_table[j].val.disk_offset

----------------------------------------------------------------------------
(* Properties of BfTree::traverse, checked under SpecTraverse.             *)

\* C31: traverse(key) ends for every key on every tree whose child ids are
\* ids of pinned inner nodes further down or ids present in the mapping
\* table, also when a leaf is registered under logical page id 0.
C31_TraverseTerminates == last.op = "traverse" => last.panic # "diverges"

----------------------------------------------------------------------------
(* Properties of the page codec and of leaf pages, checked under SpecPage. *)

CountMatches(p) == p.node_meta.record_count = Len(p.kv_metas)

\* C4: for the page under test after inserts and resizes, for both pages
\* split returns and for a loaded page, node_meta.record_count is the
\* number of record metas.
C4_RecordCount ==
    /\ CountMatches(page)
    /\ parts.some => (CountMatches(parts.val.left) /\ CountMatches(parts.val.right))
    /\ loaded.some => CountMatches(loaded.val)

Sorted(p) ==
    \A i \in 1..(Len(p.kv_metas) - 1) :
        Cmp(KeyAt(p, i - 1), KeyAt(p, i)) \in {"Less", "Equal"}

\* C6: after any sequence of Page::insert calls, keys given in any order,
\* the keys that record_metas references are in non-decreasing
\* lexicographic order in index order.
C6_KeysInOrder == Sorted(page)

\* The last insert put its key in front of a key inserted before it.
C6_Witness ==
    /\ pageOp.op = "insert"
    /\ pageOp.ret = Some(1)
    /\ Len(page.kv_metas) = 2
    /\ page.kv_metas[1].offset > page.kv_metas[2].offset
    /\ Cmp(KeyAt(page, 0), KeyAt(page, 1)) = "Less"

InBounds(p, i) ==
    p.kv_metas[i + 1].offset + p.kv_metas[i + 1].key_size + p.kv_metas[i + 1].value_size
        <= Len(p.data)

\* C8: a leaf page built by inserts, flushed at an offset and loaded back
\* from that offset, comes back with the same node_meta (record_count
\* included) and the same key and value bytes for every record in the same
\* order; binary_search on the loaded page finds for every inserted key a
\* value inserted with it, and nothing for any other key.
C8_RoundTrip ==
    (pageOp.op = "load" /\ pageOp.after_flush) =>
        /\ loaded.some
        /\ loaded.val.node_meta = page.node_meta
        /\ Len(loaded.val.kv_metas) = Len(page.kv_metas)
        /\ Len(loaded.val.data) = Len(page.data)
        /\ \A i \in 0..(Len(page.kv_metas) - 1) :
              /\ InBounds(loaded.val, i)
              /\ KeyAt(loaded.val, i) = KeyAt(page, i)
              /\ ValueAt(loaded.val, i) = ValueAt(page, i)
        /\ \A key \in PageKeys \cup {<<9>>} :
              LET r == BinarySearch(loaded.val, key).ret
              IN  IF \E kv \in inserted : kv[1] = key
                  THEN r.some /\ <<key, r.val>> \in inserted
                  ELSE ~r.some

\* A leaf whose second insert went in front of the first was flushed over
\* the older image and loaded back.
C8_Witness ==
    /\ pageOp.op = "load"
    /\ pageOp.after_flush
    /\ Len(page.kv_metas) = 2
    /\ page.kv_metas[1].offset > page.kv_metas[2].offset
    /\ page.kv_metas[1].ref_flag = 1
    /\ Len(file) > Len(PageImage(page))

\* C14: a merge that returns leaves in the mini-page no record of type
\* Insert or Tombstone with ref_flag 0 and no ref_flag other than 0, and a
\* second merge right after it leaves the mini-page and the leaf as the
\* first one left them.
C14_MergeIdempotent ==
    [][(pageOp'.op = "merge" /\ pageOp'.panic = "") =>
          /\ \A i \in 1..Len(page'.kv_metas) :
                /\ page'.kv_metas[i].ref_flag = 0
                /\ page'.kv_metas[i].type_flag \notin {Insert, Tombstone}
          /\ pageOp.op = "merge" => (page' = page /\ file' = file)]_vars

\* C15: split of a leaf with n >= 1 records returns left with exactly the
\* records [0, n/2) and right with exactly the records [n/2, n), in the
\* same order with the same key and value bytes; every key the leaf held
\* is found in exactly one of the two with its value, and no other key is
\* found in either.
C15_SplitPartitions ==
    parts.some =>
        LET n == Len(page.kv_metas)
            mid == n \div 2
            l == parts.val.left
            r == parts.val.right
        IN  /\ Len(l.kv_metas) = mid
            /\ Len(r.kv_metas) = n - mid
            /\ \A i \in 0..(mid - 1) :
                  KeyAt(l, i) = KeyAt(page, i) /\ ValueAt(l, i) = ValueAt(page, i)
            /\ \A i \in mid..(n - 1) :
                  KeyAt(r, i - mid) = KeyAt(page, i) /\ ValueAt(r, i - mid) = ValueAt(page, i)
            /\ \A key \in PageKeys \cup {<<9>>} :
                  LET orig == BinarySearch(page, key).ret
                      in_l == BinarySearch(l, key).ret
                      in_r == BinarySearch(r, key).ret
                  IN  IF orig.some
                      THEN /\ in_l.some # in_r.some
                           /\ in_l.some => in_l = orig
                           /\ in_r.some => in_r = orig
                      ELSE ~in_l.some /\ ~in_r.some

\* Sequence s without its element at (1-based) position pos.
Without(s, pos) == SubSeq(s, 1, pos - 1) \o SubSeq(s, pos + 1, Len(s))

\* C16: on a page built by inserts of distinct keys, binary_search(k)
\* returns Some(the value inserted with k) when k was inserted and none
\* when it was not.
C16_SearchFindsInserted ==
    (/\ Len(page.kv_metas) = Cardinality(inserted)
     /\ \A a, b \in inserted : a[1] = b[1] => a = b)
        => \A key \in PageKeys \cup {<<0>>, <<1, 1>>, <<9>>} :
              BinarySearch(page, key).ret =
                  IF \E kv \in inserted : kv[1] = key
                  THEN Some((CHOOSE kv \in inserted : kv[1] = key)[2])
                  ELSE None

\* Two distinct keys were inserted, the larger one first, and the last
\* search found one of them.
C16_Witness ==
    /\ pageOp.op = "search"
    /\ pageOp.ret.some
    /\ Cardinality(inserted) = 2
    /\ Len(page.kv_metas) = 2
    /\ Cmp(KeyAt(page, 0), KeyAt(page, 1)) = "Less"
    /\ page.kv_metas[1].offset > page.kv_metas[2].offset

\* C19: Page::insert(key, value, type) returns false and changes nothing
\* exactly when 12 + 8 * (number of metas) + heap length + key length +
\* value length exceeds node_size; otherwise it returns true, appends key
\* and value to the heap and adds one meta with offset = the old heap
\* length, the given type (Insert by default), is_fence false, ref_flag 0
\* and lookahead 0.
C19_InsertContract ==
    [][pageOp'.op = "insert" =>
          LET key == pageOp'.key
              value == pageOp'.value
              fits == 12 + 8 * Len(page.kv_metas) + Len(page.data) + Len(key) + Len(value)
                          <= page.node_meta.node_size
              meta == [key_size |-> Len(key), value_size |-> Len(value),
                       offset |-> Len(page.data),
                       type_flag |-> IF pageOp'.record_type.some
                                     THEN pageOp'.record_type.val ELSE Insert,
                       is_fence |-> FALSE, ref_flag |-> 0, lookahead |-> 0]
          IN  /\ pageOp'.ret = (IF fits THEN Some(1) ELSE Some(0))
              /\ ~fits => page' = page
              /\ fits =>
                    /\ page'.data = page.data \o key \o value
                    /\ \E pos \in 0..Len(page.kv_metas) :
                          page'.kv_metas = VecInsert(page.kv_metas, pos, meta)]_vars

\* An insert of a Tombstone record was refused by a mini-page that holds
\* a Tombstone record.
C19_Witness ==
    /\ pageOp.op = "insert"
    /\ pageOp.ret = Some(0)
    /\ pageOp.record_type = Some(Tombstone)
    /\ Len(page.kv_metas) = 1
    /\ page.kv_metas[1].type_flag = Tombstone

\* C20: binary_search changes nothing on a miss and on a hit sets the
\* ref_flag of the matched record to 1 and changes nothing else; a
\* Page::insert leaves every existing record meta, ref_flag included, as
\* it was.
C20_SearchFrame ==
    [][/\ pageOp'.op = "search" =>
             IF pageOp'.ret.some
             THEN \E i \in 1..Len(page.kv_metas) :
                     /\ KeyOf(page.data, page.kv_metas[i]) = pageOp'.key
                     /\ page' = [page EXCEPT !.kv_metas[i].ref_flag = 1]
             ELSE page' = page
       /\ (pageOp'.op = "insert" /\ pageOp'.ret = Some(1)) =>
             \E pos \in 1..Len(page'.kv_metas) :
                 Without(page'.kv_metas, pos) = page.kv_metas]_vars

\* A record was inserted next to a record that a search had marked.
C20_Witness ==
    /\ pageOp.op = "insert"
    /\ pageOp.ret = Some(1)
    /\ Len(page.kv_metas) = 2
    /\ \E i, j \in 1..2 : page.kv_metas[i].ref_flag = 1 /\ page.kv_metas[j].ref_flag = 0

\* C21: every record of a leaf page that load_from_disk returns has
\* ref_flag 0, also when the image it reads was flushed after a successful
\* binary_search had set the ref_flag of a record.
C21_LoadedRefFlagZero ==
    (pageOp.op = "load" /\ pageOp.after_flush /\ loaded.some) =>
        \A i \in 1..Len(loaded.val.kv_metas) : loaded.val.kv_metas[i].ref_flag = 0

\* C24: next_size is 2 * node_size when that is at most MINI_PAGE_MAX_SIZE
\* and 0 otherwise; from MINI_PAGE_MIN_SIZE, resize(next_size()) steps
\* through 64, 128, ..., 4096, where next_size is 0.
C24_NextSizeDoubles ==
    [][IsMini(page') =>
          LET size == page'.node_meta.node_size
          IN  /\ NextSize(page') = (IF 2 * size <= MINI_PAGE_MAX_SIZE THEN 2 * size ELSE 0)
              /\ size \in {64, 128, 256, 512, 1024, 2048, 4096}
              /\ size = 4096 => NextSize(page') = 0
              /\ pageOp'.op = "resize" => size = 2 * page.node_meta.node_size
              /\ pageOp'.op # "resize" => size = page.node_meta.node_size]_vars

\* The mini-page has been resized up to MINI_PAGE_MAX_SIZE.
C24_Witness ==
    /\ pageOp.op = "resize"
    /\ IsMini(page)
    /\ page.node_meta.node_size = MINI_PAGE_MAX_SIZE
    /\ NextSize(page) = 0

\* C25: MiniPage::resize changes node_meta.node_size and nothing else:
\* the record metas with their type_flag and ref_flag, the heap,
\* record_count, the split flag, the page kind and leaf_link stay, and
\* every key is found with the same value as before.
C25_ResizeFrame ==
    [][pageOp'.op = "resize" =>
          /\ page'.kv_metas = page.kv_metas
          /\ page'.data = page.data
          /\ page'.node_meta = [page.node_meta EXCEPT !.node_size = NextSize(page)]
          /\ \A key \in PageKeys :
                BinarySearch(page', key).ret = BinarySearch(page, key).ret]_vars

\* A mini-page with a Tombstone record and a record that a search had
\* marked has been resized.
C25_Witness ==
    /\ pageOp.op = "resize"
    /\ Len(page.kv_metas) = 2
    /\ \E i, j \in 1..2 :
          /\ page.kv_metas[i].type_flag = Tombstone
          /\ page.kv_metas[j].ref_flag = 1
    /\ page.node_meta.node_size > MINI_PAGE_MIN_SIZE

\* C23: for the pages split returns, every key of left is strictly less
\* than split_key, every key of right is greater than or equal to it, and
\* split_key is the smallest key of right; a key the leaf held is found in
\* left when it is less than split_key and in right otherwise.
C23_SplitKeySeparates ==
    parts.some =>
        LET l == parts.val.left
            r == parts.val.right
            split_key == parts.val.split_key
        IN  /\ \A i \in 0..(Len(l.kv_metas) - 1) : Cmp(KeyAt(l, i), split_key) = "Less"
            /\ \A i \in 0..(Len(r.kv_metas) - 1) :
                  Cmp(KeyAt(r, i), split_key) \in {"Greater", "Equal"}
            /\ Len(r.kv_metas) >= 1
            /\ KeyAt(r, 0) = split_key
            /\ \A key \in PageKeys :
                  BinarySearch(page, key).ret.some =>
                      BinarySearch(IF Cmp(key, split_key) = "Less" THEN l ELSE r, key).ret.some

----------------------------------------------------------------------------
(* Properties of pages that go through split, flush and load, checked      *)
(* under SpecPageSplit.                                                    *)

\* Every record meta of p lies inside the heap of p.
AllInBounds(p) == \A i \in 0..(Len(p.kv_metas) - 1) : InBounds(p, i)

\* Every record meta of p has the key_size and value_size of a (key, value)
\* pair that was inserted and references those bytes.
LengthsAsInserted(p) ==
    \A i \in 0..(Len(p.kv_metas) - 1) :
        \E rec \in inserted :
            /\ p.kv_metas[i + 1].key_size = Len(rec[1])
            /\ p.kv_metas[i + 1].value_size = Len(rec[2])
            /\ KeyAt(p, i) = rec[1]
            /\ ValueAt(p, i) = rec[2]

\* C30: after any sequence of insert, resize, split, flush and load, on the
\* page under test, on both pages a split returned and on a page loaded
\* back from where one of them was flushed, every record meta m has
\* m.offset + m.key_size + m.value_size <= len(data heap) and holds the
\* lengths of the key and the value that were inserted.
C30_MetasInsideHeap ==
    /\ AllInBounds(page) /\ LengthsAsInserted(page)
    /\ parts.some =>
          /\ AllInBounds(parts.val.left) /\ LengthsAsInserted(parts.val.left)
          /\ AllInBounds(parts.val.right) /\ LengthsAsInserted(parts.val.right)
    /\ loaded.some => AllInBounds(loaded.val)
    /\ (loaded.some /\ (pageOp.after_flush \/ pageOp.half # "")) =>
          LengthsAsInserted(loaded.val)

----------------------------------------------------------------------------
(* Properties of the record-meta codec, checked under SpecCodec.           *)

\* C22: KVMeta::deserialize(KVMeta::serialize(m)) is m for every record
\* meta with key_size and value_size below 2^14, type_flag and ref_flag
\* below 4 and any 16-bit lookahead.
C22_MetaRoundTrip == codec.op = "deserialize" => codec.back = codec.meta

----------------------------------------------------------------------------
(* Properties of inner nodes, checked under SpecInner.                     *)

StrictKeys(keys) == \A i \in 1..(Len(keys) - 1) : Cmp(keys[i], keys[i + 1]) = "Less"

SortedKeys(keys) ==
    \A i \in 1..(Len(keys) - 1) : Cmp(keys[i], keys[i + 1]) \in {"Less", "Equal"}

WellFormed(n) == StrictKeys(n.keys) /\ Len(n.children) = Len(n.keys) + 1

\* C26: on an inner node with strictly sorted keys and one child more than
\* keys, find_child_page_id(k) returns Some(children[i]) with i the number
\* of separators less than or equal to k, and never none.
C26_FindChildRoutes ==
    WellFormed(innerNode) =>
        /\ \A key \in FindKeys :
              FindChildPageId(innerNode, key) = Some(RouteChild(innerNode, key))
        /\ nodeOp.op = "find" => nodeOp.ret = Some(RouteChild(innerNode, nodeOp.key))

\* find_child_page_id was called with a key equal to the middle one of
\* three separators.
C26_Witness ==
    /\ nodeOp.op = "find"
    /\ WellFormed(innerNode)
    /\ Len(innerNode.keys) = 3
    /\ nodeOp.key = innerNode.keys[2]
    /\ nodeOp.ret = Some(innerNode.children[3])

\* C27: an inner node made by InnerNode::new or mock_single_child and then
\* given separators by insert has sorted keys and one child more than keys
\* (one child when it has no keys), and every insert call completes.
C27_InnerNodeShape ==
    /\ SortedKeys(innerNode.keys)
    /\ Len(innerNode.children) = Len(innerNode.keys) + 1
    /\ nodeOp.panic = ""

\* The smallest separator of keys greater than sep, if any.
NextSeparator(keys, sep) ==
    LET above == {i \in 1..Len(keys) : Cmp(keys[i], sep) = "Greater"}
    IN  IF above = {} THEN None
        ELSE Some(keys[CHOOSE i \in above :
                           \A j \in above : Cmp(keys[i], keys[j]) \in {"Less", "Equal"}])

\* C28: after insert(sep, c) with sep not a separator before,
\* find_child_page_id(k) returns c for every k from sep up to the next
\* larger separator and the same child as before the insert for every
\* other key.
C28_InsertRoutes ==
    [][(/\ nodeOp'.op = "insert"
        /\ nodeOp'.panic = ""
        /\ \A i \in 1..Len(innerNode.keys) : innerNode.keys[i] # nodeOp'.key) =>
          LET sep == nodeOp'.key
              next == NextSeparator(innerNode.keys, sep)
          IN  \A k \in FindKeys :
                  IF /\ Cmp(sep, k) \in {"Less", "Equal"}
                     /\ next.some => Cmp(k, next.val) = "Less"
                  THEN FindChildPageId(innerNode', k) = Some(nodeOp'.child_page_id)
                  ELSE FindChildPageId(innerNode', k) = FindChildPageId(innerNode, k)]_vars

----------------------------------------------------------------------------
(* Properties of the mapping table, checked under SpecTable.               *)

\* Slots i (1-based) of tables a and b agree wherever i is not slot.
SameElsewhere(a, b, slot) ==
    \A i \in 1..Len(a) : i # slot => (i <= Len(b) /\ b[i] = a[i])

\* C17: update_mini_page and clear_mini_page on a present slot change that
\* slot's mini-page handle only (its leaf offset and every other slot
\* stay); an insert beyond the length adds absent slots below the id and
\* the new entry at the id; get of an id never inserted returns absent.
C17_TableFrame ==
    [][LET id == tableOp'.page_id
           old == mapping_table
           new == mapping_table'
       IN  /\ (tableOp'.op \in {"update", "clear"} /\ MappingTableContains(old, id)) =>
                  /\ tableOp'.panic = ""
                  /\ Len(new) = Len(old)
                  /\ SameElsewhere(old, new, id + 1)
                  /\ new[id + 1].some
                  /\ new[id + 1].val.disk_offset = old[id + 1].val.disk_offset
                  /\ new[id + 1].val.mini = tableOp'.mini
           /\ (tableOp'.op = "insert" /\ id >= Len(old)) =>
                  /\ Len(new) = id + 1
                  /\ SameElsewhere(old, new, id + 1)
                  /\ \A i \in (Len(old) + 1)..id : ~new[i].some
                  /\ new[id + 1] = Some([mini |-> tableOp'.mini,
                                         disk_offset |-> tableOp'.disk_offset])
           /\ (tableOp'.op = "get" /\ id \notin tableOp'.ids) =>
                  /\ ~tableOp'.ret.some
                  /\ new = old]_vars

\* clear_mini_page has just emptied the handle of a slot that was inserted
\* beyond the length, above an absent slot, next to a slot with a handle.
C17_Witness ==
    /\ tableOp.op = "clear"
    /\ MappingTableContains(mapping_table, tableOp.page_id)
    /\ ~mapping_table[tableOp.page_id + 1].val.mini.some
    /\ \E i \in 1..Len(mapping_table) : ~mapping_table[i].some
    /\ \E i \in 1..Len(mapping_table) :
          mapping_table[i].some /\ mapping_table[i].val.mini.some

====
